---- MODULE Spec2Model ----
(***************************************************************************)
(* helm2bundle: the archive scan of getTarValues (one step per statement   *)
(* group of its loop), parseChart, and the descriptor builder NewSpec.     *)
(*                                                                         *)
(* A member name is a sequence of one-character strings so that            *)
(* path.Match can be modelled on characters.  Chart names, descriptions,   *)
(* icons and member bodies are strings.                                    *)
(***************************************************************************)
EXTENDS Integers, Sequences, FiniteSets, TLC

VARIABLES file, filename, pc, pos, chartMatch, valuesMatch, chart, values,
          err, result, spec

vars == <<file, filename, pc, pos, chartMatch, valuesMatch, chart, values,
          err, result, spec>>

\* ---------------------------------------------------------------- bounds
\* greatest number of members in an archive
MaxMembers == 3

\* ------------------------------------------------------- member names
ChartYaml == <<"C", "h", "a", "r", "t", ".", "y", "a", "m", "l">>
ValuesYaml == <<"v", "a", "l", "u", "e", "s", ".", "y", "a", "m", "l">>

\* the two patterns of getTarValues, "*/Chart.yaml" and "*/values.yaml"
ChartPattern == <<"*", "/">> \o ChartYaml
ValuesPattern == <<"*", "/">> \o ValuesYaml

DirA == <<"a">>
DirB == <<"b">>
Slash == <<"/">>

\* ------------------------------------------------------- member bodies
FooDoc == "name: foo\ndescription: bar\nicon: http://x/icon.png\n"
QuxDoc == "name: qux\n"
NoNameDoc == "description: bar\n"
BadDoc == "name: [foo\n"
ValDoc == "replicaCount: 1\n"
Val2Doc == "replicaCount: 2\n"
EmptyDoc == ""

\* a member: its header name, its body, and whether reading the body fails
Member(n, b, t) == [Name |-> n, Body |-> b, Truncated |-> t]

Members ==
  { Member(DirA \o Slash \o ChartYaml, FooDoc, FALSE),
    Member(DirA \o Slash \o ChartYaml, NoNameDoc, FALSE),
    Member(DirA \o Slash \o ChartYaml, BadDoc, FALSE),
    Member(DirA \o Slash \o ChartYaml, FooDoc, TRUE),
    Member(DirB \o Slash \o ChartYaml, QuxDoc, FALSE),
    Member(Slash \o ChartYaml, QuxDoc, FALSE),
    Member(ChartYaml, QuxDoc, FALSE),
    Member(DirA \o Slash \o <<"s">> \o Slash \o ChartYaml, FooDoc, FALSE),
    Member(DirA \o Slash \o ValuesYaml, ValDoc, FALSE),
    Member(DirA \o Slash \o ValuesYaml, ValDoc, TRUE),
    Member(DirB \o Slash \o ValuesYaml, Val2Doc, FALSE),
    Member(DirB \o Slash \o ValuesYaml, EmptyDoc, FALSE),
    Member(DirA \o Slash \o <<"s">> \o Slash \o ValuesYaml, ValDoc, FALSE),
    Member(DirA \o Slash \o <<"R">>, ValDoc, FALSE) }

RECURSIVE SeqsUpTo(_, _)
SeqsUpTo(S, n) ==
  IF n = 0 THEN { <<>> }
  ELSE LET shorter == SeqsUpTo(S, n - 1)
       IN  shorter \cup { Append(s, m) : s \in { t \in shorter : Len(t) = n - 1 }, m \in S }

\* what the path names: no file, a file that is not gzip, or a tar archive
\* whose member list ends with the end-of-archive marker or a corrupt header
Files ==
  { [Kind |-> k, Members |-> <<>>, Tail |-> "eof"] : k \in {"missing", "notgzip"} }
    \cup { [Kind |-> "targz", Members |-> ms, Tail |-> t] :
             ms \in SeqsUpTo(Members, MaxMembers), t \in {"eof", "corrupt"} }

Filenames == { "foo-0.1.0.tgz", "bar-1.2.tgz" }

\* ------------------------------------------------------------- errors
NoErr == "nil"
ErrOpen == "open: no such file or directory"
ErrGzip == "gzip: invalid header"
ErrTar == "archive/tar: invalid tar header"
ErrRead == "unexpected EOF"
ErrYaml == "yaml: did not find expected ',' or ']'"
ErrChartNotFound == "Chart.yaml not found in archive"
ErrNotBoth == "Could not find both Chart.yaml and values.yaml"

\* --------------------------------------------------------- value types
EmptyChart == [Description |-> "", Name |-> "", Icon |-> ""]

EmptyTarValues ==
  [Name |-> "", Description |-> "", Icon |-> "", TarfileName |-> "", Values |-> ""]

NoSpec == [Version |-> ""]

\* ---------------------------------------------------------- path.Match
\* matchChunk for a chunk of literal characters: the chunk must be a prefix
\* of s; rest is what follows it
MatchChunk(chunk, s) ==
  IF Len(s) >= Len(chunk) /\ SubSeq(s, 1, Len(chunk)) = chunk
  THEN [ok |-> TRUE, rest |-> SubSeq(s, Len(chunk) + 1, Len(s))]
  ELSE [ok |-> FALSE, rest |-> <<>>]

\* Match with a star that also crosses slashes: the name only has to end
\* with the chunk
Match_AnyDepth(pattern, name) ==
  LET chunk == Tail(pattern)
  IN  /\ Len(name) >= Len(chunk)
      /\ SubSeq(name, Len(name) - Len(chunk) + 1, Len(name)) = chunk

\* path.Match for a pattern that is one chunk: an optional leading star and
\* literal characters.  The chunk is tried at the start of the name, and,
\* after a star, behind each leading character that is not a slash; the
\* whole name must be consumed.
Match(pattern, name) ==
  LET star == Len(pattern) > 0 /\ pattern[1] = "*"
      chunk == IF star THEN Tail(pattern) ELSE pattern
      here == MatchChunk(chunk, name)
  IN  \/ here.ok /\ here.rest = <<>>
      \/ /\ star
         /\ \E i \in 0 .. Len(name) - 1 :
              /\ \A k \in 1 .. i + 1 : name[k] # "/"
              /\ LET t == MatchChunk(chunk, SubSeq(name, i + 2, Len(name)))
                 IN  t.ok /\ t.rest = <<>>

\* ------------------------------------------------------ yaml.Unmarshal
\* yaml.Unmarshal into a Chart: the fields present in the document are set,
\* unknown keys are skipped, a syntax error leaves the Chart untouched
yamlUnmarshal(data) ==
  CASE data = FooDoc ->
         [err |-> NoErr,
          c |-> [Description |-> "bar", Name |-> "foo", Icon |-> "http://x/icon.png"]]
    [] data = QuxDoc ->
         [err |-> NoErr, c |-> [Description |-> "", Name |-> "qux", Icon |-> ""]]
    [] data = NoNameDoc ->
         [err |-> NoErr, c |-> [Description |-> "bar", Name |-> "", Icon |-> ""]]
    [] data = BadDoc -> [err |-> ErrYaml, c |-> EmptyChart]
    [] OTHER -> [err |-> NoErr, c |-> EmptyChart]

\* ioutil.ReadAll on the current member
ReadAll(m) ==
  IF m.Truncated THEN [err |-> ErrRead, data |-> ""]
  ELSE [err |-> NoErr, data |-> m.Body]

\* parseChart
parseChart(m) ==
  LET r == ReadAll(m)
  IN  IF r.err # NoErr THEN [err |-> r.err, c |-> EmptyChart]
      ELSE yamlUnmarshal(r.data)

\* NewSpec that leaves the parameter's default unset
NewSpec_NoDefault(v) ==
  [Version |-> "1.0",
   Name |-> v.Name \o "-apb",
   Description |-> v.Description,
   Bindable |-> FALSE,
   Async |-> "optional",
   Metadata |-> [displayName |-> v.Name \o " (helm bundle)", imageUrl |-> v.Icon],
   Plans |-> << [Name |-> "default",
                 Description |-> "Deploys helm chart " \o v.Name,
                 Free |-> TRUE,
                 Parameters |-> << [Name |-> "values",
                                    Title |-> "Values",
                                    Type |-> "string",
                                    DisplayType |-> "textarea",
                                    Default |-> ""] >>] >>]

\* ------------------------------------------------------------- NewSpec
NewSpec(v) ==
  [Version |-> "1.0",
   Name |-> v.Name \o "-apb",
   Description |-> v.Description,
   Bindable |-> FALSE,
   Async |-> "optional",
   Metadata |-> [displayName |-> v.Name \o " (helm bundle)", imageUrl |-> v.Icon],
   Plans |-> << [Name |-> "default",
                 Description |-> "Deploys helm chart " \o v.Name,
                 Free |-> TRUE,
                 Parameters |-> << [Name |-> "values",
                                    Title |-> "Values",
                                    Type |-> "string",
                                    DisplayType |-> "textarea",
                                    Default |-> v.Values] >>] >>]

\* --------------------------------------------------------------- state
\* the member whose header tr.Next returned last
hdr == file.Members[pos]

Init ==
  /\ file \in Files
  /\ filename \in Filenames
  /\ pc = "open"
  /\ pos = 0
  /\ chartMatch = FALSE
  /\ valuesMatch = FALSE
  /\ chart = EmptyChart
  /\ values = ""
  /\ err = NoErr
  /\ result = EmptyTarValues
  /\ spec = NoSpec

\* return TarValues{}, e
Fail(e) ==
  /\ pc' = "done"
  /\ err' = e
  /\ result' = EmptyTarValues

\* os.Open fails
OpenFail ==
  /\ pc = "open"
  /\ file.Kind = "missing"
  /\ Fail(ErrOpen)
  /\ UNCHANGED <<file, filename, pos, chartMatch, valuesMatch, chart, values, spec>>

\* gzip.NewReader fails
GzipFail ==
  /\ pc = "open"
  /\ file.Kind = "notgzip"
  /\ Fail(ErrGzip)
  /\ UNCHANGED <<file, filename, pos, chartMatch, valuesMatch, chart, values, spec>>

\* the file opens, the gzip and tar readers are made, the loop is entered
Open ==
  /\ pc = "open"
  /\ file.Kind = "targz"
  /\ pc' = "next"
  /\ UNCHANGED <<file, filename, pos, chartMatch, valuesMatch, chart, values,
                 err, result, spec>>

\* tr.Next returns io.EOF and the loop is left with break instead of return
NextEOF_Break ==
  /\ pc = "next"
  /\ pos = Len(file.Members)
  /\ file.Tail = "eof"
  /\ pc' = "after"
  /\ UNCHANGED <<file, filename, pos, chartMatch, valuesMatch, chart, values,
                 err, result, spec>>

\* tr.Next returns io.EOF
NextEOF ==
  /\ pc = "next"
  /\ pos = Len(file.Members)
  /\ file.Tail = "eof"
  /\ Fail(ErrChartNotFound)
  /\ UNCHANGED <<file, filename, pos, chartMatch, valuesMatch, chart, values, spec>>

\* tr.Next returns another error
NextErr ==
  /\ pc = "next"
  /\ pos = Len(file.Members)
  /\ file.Tail = "corrupt"
  /\ Fail(ErrTar)
  /\ UNCHANGED <<file, filename, pos, chartMatch, valuesMatch, chart, values, spec>>

\* tr.Next returns the next header
NextHeader ==
  /\ pc = "next"
  /\ pos < Len(file.Members)
  /\ pos' = pos + 1
  /\ pc' = "match"
  /\ UNCHANGED <<file, filename, chartMatch, valuesMatch, chart, values,
                 err, result, spec>>

\* the two path.Match calls (the patterns are well formed: no ErrBadPattern)
MatchNames ==
  /\ pc = "match"
  /\ chartMatch' = Match(ChartPattern, hdr.Name)
  /\ valuesMatch' = Match(ValuesPattern, hdr.Name)
  /\ pc' = "chart"
  /\ UNCHANGED <<file, filename, pos, chart, values, err, result, spec>>

\* ChartStep that drops the parse error and goes on
ChartStep_IgnoreErr ==
  /\ pc = "chart"
  /\ chart' = IF chartMatch THEN parseChart(hdr).c ELSE chart
  /\ pc' = "values"
  /\ UNCHANGED <<file, filename, pos, chartMatch, valuesMatch, values, err,
                 result, spec>>

\* ChartStep that keeps the fields the new document leaves empty
ChartStep_Merge ==
  /\ pc = "chart"
  /\ IF chartMatch
     THEN LET r == parseChart(hdr)
          IN  /\ chart' = [f \in DOMAIN chart |-> IF r.c[f] # "" THEN r.c[f] ELSE chart[f]]
              /\ IF r.err # NoErr
                 THEN Fail(r.err)
                 ELSE pc' = "values" /\ UNCHANGED <<err, result>>
     ELSE pc' = "values" /\ UNCHANGED <<chart, err, result>>
  /\ UNCHANGED <<file, filename, pos, chartMatch, valuesMatch, values, spec>>

\* if chartMatch { chart, err = parseChart(tr); if err != nil { return } }
ChartStep ==
  /\ pc = "chart"
  /\ IF chartMatch
     THEN LET r == parseChart(hdr)
          IN  /\ chart' = r.c
              /\ IF r.err # NoErr
                 THEN Fail(r.err)
                 ELSE pc' = "values" /\ UNCHANGED <<err, result>>
     ELSE pc' = "values" /\ UNCHANGED <<chart, err, result>>
  /\ UNCHANGED <<file, filename, pos, chartMatch, valuesMatch, values, spec>>

\* ValuesStep that reads values.yaml only once the chart name is known
ValuesStep_NeedsChart ==
  /\ pc = "values"
  /\ IF valuesMatch /\ chart.Name # ""
     THEN LET r == ReadAll(hdr)
          IN  IF r.err # NoErr
              THEN Fail(r.err) /\ UNCHANGED values
              ELSE values' = r.data /\ pc' = "check" /\ UNCHANGED <<err, result>>
     ELSE pc' = "check" /\ UNCHANGED <<values, err, result>>
  /\ UNCHANGED <<file, filename, pos, chartMatch, valuesMatch, chart, spec>>

\* if valuesMatch { data, err := ioutil.ReadAll(tr); ...; values = string(data) }
ValuesStep ==
  /\ pc = "values"
  /\ IF valuesMatch
     THEN LET r == ReadAll(hdr)
          IN  IF r.err # NoErr
              THEN Fail(r.err) /\ UNCHANGED values
              ELSE values' = r.data /\ pc' = "check" /\ UNCHANGED <<err, result>>
     ELSE pc' = "check" /\ UNCHANGED <<values, err, result>>
  /\ UNCHANGED <<file, filename, pos, chartMatch, valuesMatch, chart, spec>>

\* CheckBoth without the break
CheckBoth_NoBreak ==
  /\ pc = "check"
  /\ pc' = "next"
  /\ UNCHANGED <<file, filename, pos, chartMatch, valuesMatch, chart, values,
                 err, result, spec>>

\* CheckBoth that takes a matched Chart.yaml as found, whatever its name
CheckBoth_Matched ==
  /\ pc = "check"
  /\ pc' = IF values # "" /\ (chart.Name # "" \/ chartMatch) THEN "after" ELSE "next"
  /\ UNCHANGED <<file, filename, pos, chartMatch, valuesMatch, chart, values,
                 err, result, spec>>

\* if len(values) > 0 && len(chart.Name) > 0 { break }
CheckBoth ==
  /\ pc = "check"
  /\ pc' = IF values # "" /\ chart.Name # "" THEN "after" ELSE "next"
  /\ UNCHANGED <<file, filename, pos, chartMatch, valuesMatch, chart, values,
                 err, result, spec>>

\* Return whose TarValues literal lacks the Values field
Return_NoValues ==
  /\ pc = "after"
  /\ IF values # "" /\ chart.Name # ""
     THEN /\ result' = [Name |-> chart.Name,
                        Description |-> chart.Description,
                        Icon |-> chart.Icon,
                        TarfileName |-> filename,
                        Values |-> ""]
          /\ err' = NoErr
          /\ pc' = "build"
     ELSE Fail(ErrNotBoth)
  /\ UNCHANGED <<file, filename, pos, chartMatch, valuesMatch, chart, values, spec>>

\* the statements after the loop
Return ==
  /\ pc = "after"
  /\ IF values # "" /\ chart.Name # ""
     THEN /\ result' = [Name |-> chart.Name,
                        Description |-> chart.Description,
                        Icon |-> chart.Icon,
                        TarfileName |-> filename,
                        Values |-> values]
          /\ err' = NoErr
          /\ pc' = "build"
     ELSE Fail(ErrNotBoth)
  /\ UNCHANGED <<file, filename, pos, chartMatch, valuesMatch, chart, values, spec>>

\* writeApbYaml builds the descriptor from the values run got
Build ==
  /\ pc = "build"
  /\ spec' = NewSpec(result)
  /\ pc' = "done"
  /\ UNCHANGED <<file, filename, pos, chartMatch, valuesMatch, chart, values,
                 err, result>>

Next ==
  \/ OpenFail
  \/ GzipFail
  \/ Open
  \/ NextEOF
  \/ NextErr
  \/ NextHeader
  \/ MatchNames
  \/ ChartStep
  \/ ValuesStep
  \/ CheckBoth
  \/ Return
  \/ Build

Spec == Init /\ [][Next]_vars

TypeOK ==
  /\ pc \in {"open", "next", "match", "chart", "values", "check", "after", "build", "done"}
  /\ pos \in 0 .. Len(file.Members)
  /\ chartMatch \in BOOLEAN
  /\ valuesMatch \in BOOLEAN

\* ------------------------------------------------- the builder alone
TarValuesInputs ==
  [Name : {"", "foo", "qux"},
   Description : {"", "bar"},
   Icon : {"", "http://x/icon.png"},
   TarfileName : Filenames,
   Values : {"", ValDoc, Val2Doc}]

\* NewSpec applied to any TarValues
InitB ==
  /\ file = [Kind |-> "targz", Members |-> <<>>, Tail |-> "eof"]
  /\ result \in TarValuesInputs
  /\ filename = result.TarfileName
  /\ pc = "build"
  /\ pos = 0
  /\ chartMatch = FALSE
  /\ valuesMatch = FALSE
  /\ chart = EmptyChart
  /\ values = ""
  /\ err = NoErr
  /\ spec = NoSpec

NextB == Build

SpecB == InitB /\ [][NextB]_vars

\* ------------------------------------------- vocabulary of the properties
Ms == file.Members

\* the name is one directory segment (no slash in it), a slash, and the base
\* name (a file name, so without a slash)
OneLevel(name, base) ==
  LET d == Len(name) - Len(base)
  IN  /\ d >= 1
      /\ name[d] = "/"
      /\ SubSeq(name, d + 1, Len(name)) = base
      /\ \A k \in 1 .. d - 1 : name[k] # "/"

IsChartMember(m) == OneLevel(m.Name, ChartYaml)
IsValuesMember(m) == OneLevel(m.Name, ValuesYaml)

ChartIdx == { i \in 1 .. Len(Ms) : IsChartMember(Ms[i]) }
ValuesIdx == { i \in 1 .. Len(Ms) : IsValuesMember(Ms[i]) }

Greatest(S) == CHOOSE i \in S : \A j \in S : j <= i

\* the parse of the last Chart.yaml among the first n members
CapChart(n) ==
  LET S == { i \in ChartIdx : i <= n }
  IN  IF S = {} THEN EmptyChart ELSE yamlUnmarshal(Ms[Greatest(S)].Body).c

\* the body of the last values.yaml among the first n members
CapValues(n) ==
  LET S == { i \in ValuesIdx : i <= n }
  IN  IF S = {} THEN "" ELSE Ms[Greatest(S)].Body

\* a Chart.yaml that parses and names the chart
NamedChartAt(i) ==
  /\ i \in ChartIdx
  /\ ~Ms[i].Truncated
  /\ yamlUnmarshal(Ms[i].Body).err = NoErr
  /\ yamlUnmarshal(Ms[i].Body).c.Name # ""

\* a Chart.yaml that parses and has no name
UnnamedChartAt(i) ==
  /\ i \in ChartIdx
  /\ ~Ms[i].Truncated
  /\ yamlUnmarshal(Ms[i].Body).err = NoErr
  /\ yamlUnmarshal(Ms[i].Body).c.Name = ""

\* a Chart.yaml whose content does not parse
BadChartAt(i) ==
  /\ i \in ChartIdx
  /\ ~Ms[i].Truncated
  /\ yamlUnmarshal(Ms[i].Body).err # NoErr

\* a tar archive that ends with the end-of-archive marker and whose
\* Chart.yaml and values.yaml bodies can all be read
WellFormed ==
  /\ file.Kind = "targz"
  /\ file.Tail = "eof"
  /\ \A i \in ChartIdx \cup ValuesIdx : ~Ms[i].Truncated

\* getTarValues has returned (nil error / some error)
Returned == pc \in {"build", "done"}
Succeeded == Returned /\ err = NoErr

\* ------------------------------------------------------------ claims

\* C1: whenever getTarValues returns without error, the TarValues it returns
\* has a non-empty Name and a non-empty Values.
Thm_C1 == Succeeded => result.Name # "" /\ result.Values # ""

Wit_C1 == Succeeded /\ pc = "build" /\ Len(Ms) = MaxMembers

\* both captures are non-empty after the first n members
Complete(n) == CapChart(n).Name # "" /\ CapValues(n) # ""

\* C2: once a non-empty chart name and a non-empty values text are both
\* captured, tr.Next is not called again (pos never changes), and on success
\* the number of members read is the index of the first member after which
\* both captures are non-empty, whatever follows it.
Thm_C2 ==
  /\ [][(chart.Name # "" /\ values # "") => pos' = pos]_vars
  /\ [](Succeeded => /\ Complete(pos)
                     /\ \A n \in 0 .. pos - 1 : ~Complete(n))

Wit_C2 == Succeeded /\ pc = "done" /\ pos < Len(Ms)

\* C3 (as claimed): when the archive ends after a Chart.yaml with a non-empty
\* name was parsed and no values.yaml was ever matched, the error says that
\* the values file is missing, and is not the error given when no Chart.yaml
\* was matched at all.
Claim_C3 ==
  ( /\ pc = "done"
    /\ WellFormed
    /\ pos = Len(Ms)
    /\ ValuesIdx = {}
    /\ chart.Name # "" )
  => err = ErrNotBoth /\ err # ErrChartNotFound

\* C4: for a readable archive with no member matching */Chart.yaml, every
\* member is read up to the end-of-archive marker and getTarValues then
\* fails with the Chart.yaml-not-found error; it never succeeds and never
\* returns earlier.
Thm_C4 ==
  (WellFormed /\ ChartIdx = {})
  => /\ ~Succeeded
     /\ pc \notin {"after", "build"}
     /\ pc = "done" => /\ pos = Len(Ms)
                       /\ err = ErrChartNotFound
                       /\ result = EmptyTarValues

Wit_C4 ==
  /\ WellFormed
  /\ ChartIdx = {}
  /\ pc = "done"
  /\ Len(Ms) = MaxMembers
  /\ values # ""

\* C5: a member matching */Chart.yaml whose content does not parse ends
\* getTarValues at once with the parse error: it is the last member whose
\* header is read, and the returned TarValues is empty, also when a values
\* text or an earlier chart name was captured before.
Thm_C5 ==
  \A i \in 1 .. pos :
    BadChartAt(i) =>
      /\ pos = i
      /\ \/ pc \in {"match", "chart"}
         \/ /\ pc = "done"
            /\ err = ErrYaml
            /\ result = EmptyTarValues

Wit_C5 ==
  /\ pc = "done"
  /\ err = ErrYaml
  /\ values # ""
  /\ pos < Len(Ms)

\* the element of a one-element set
TheOnly(S) == CHOOSE i \in S : TRUE

\* the archive has one named Chart.yaml and one non-empty values.yaml
Pre_C6 ==
  /\ file.Kind = "targz"
  /\ Cardinality(ChartIdx) = 1
  /\ Cardinality(ValuesIdx) = 1
  /\ NamedChartAt(TheOnly(ChartIdx))
  /\ ~Ms[TheOnly(ValuesIdx)].Truncated
  /\ Ms[TheOnly(ValuesIdx)].Body # ""

\* C6: an archive with exactly one member matching */Chart.yaml (it parses
\* and has a name) and exactly one matching */values.yaml (not empty), in
\* either order and with unrelated members anywhere, makes getTarValues
\* return that chart's name, description and icon, the body of the values
\* member, and the filename argument.
Thm_C6 ==
  (Pre_C6 /\ Returned)
  => /\ err = NoErr
     /\ LET c == yamlUnmarshal(Ms[TheOnly(ChartIdx)].Body).c
        IN  result = [Name |-> c.Name,
                      Description |-> c.Description,
                      Icon |-> c.Icon,
                      TarfileName |-> filename,
                      Values |-> Ms[TheOnly(ValuesIdx)].Body]

Wit_C6 ==
  /\ Pre_C6
  /\ pc = "done"
  /\ TheOnly(ValuesIdx) < TheOnly(ChartIdx)
  /\ Len(Ms) = MaxMembers
  /\ result.Description = "bar"

\* a member of another shape changes neither capture
OtherMemberIgnored ==
  pc \in {"match", "chart", "values", "check"}
    => ( (~OneLevel(hdr.Name, ChartYaml) => chart' = chart)
         /\ (~OneLevel(hdr.Name, ValuesYaml) => values' = values) )

\* C7: a member is taken for the metadata (values) file only if its path is
\* one directory segment followed by Chart.yaml (values.yaml), where the
\* segment is any run of characters without a slash, the empty one included;
\* a deeper member or one without a directory leaves the captured chart and
\* values as they are, and a readable archive with no one-level Chart.yaml
\* fails with the Chart.yaml-not-found error.
Thm_C7 ==
  /\ [](pc \in {"chart", "values", "check"}
          => /\ chartMatch <=> OneLevel(hdr.Name, ChartYaml)
             /\ valuesMatch <=> OneLevel(hdr.Name, ValuesYaml))
  /\ [][OtherMemberIgnored]_vars
  /\ []((WellFormed /\ ChartIdx = {} /\ pc = "done") => err = ErrChartNotFound)

\* some member is a Chart.yaml two levels deep and one has no directory
Wit_C7 ==
  /\ pc = "done"
  /\ err = ErrChartNotFound
  /\ WellFormed
  /\ \E i \in 1 .. Len(Ms) : Ms[i].Name = DirA \o Slash \o <<"s">> \o Slash \o ChartYaml
  /\ \E i \in 1 .. Len(Ms) : Ms[i].Name = ChartYaml
  /\ values # ""

\* C8: NewSpec(v) has Name v.Name + "-apb", Description v.Description,
\* Bindable false, Async "optional", display name v.Name + " (helm bundle)",
\* image URL v.Icon, and exactly one plan, "default", free, described as
\* "Deploys helm chart " + v.Name, with exactly one parameter, "values", of
\* type string and display type textarea, whose default is v.Values.
Thm_C8 ==
  (pc = "done" /\ err = NoErr)
  => /\ spec.Name = result.Name \o "-apb"
     /\ spec.Description = result.Description
     /\ spec.Bindable = FALSE
     /\ spec.Async = "optional"
     /\ spec.Metadata.displayName = result.Name \o " (helm bundle)"
     /\ spec.Metadata.imageUrl = result.Icon
     /\ Len(spec.Plans) = 1
     /\ spec.Plans[1].Name = "default"
     /\ spec.Plans[1].Free = TRUE
     /\ spec.Plans[1].Description = "Deploys helm chart " \o result.Name
     /\ Len(spec.Plans[1].Parameters) = 1
     /\ spec.Plans[1].Parameters[1].Name = "values"
     /\ spec.Plans[1].Parameters[1].Type = "string"
     /\ spec.Plans[1].Parameters[1].DisplayType = "textarea"
     /\ spec.Plans[1].Parameters[1].Default = result.Values

Wit_C8 ==
  /\ pc = "done"
  /\ spec.Name = "foo-apb"
  /\ spec.Metadata.displayName = "foo (helm bundle)"
  /\ spec.Plans[1].Description = "Deploys helm chart foo"
  /\ spec.Plans[1].Parameters[1].Default = ValDoc

\* C9: after a member matching */Chart.yaml that parses to an empty name,
\* getTarValues does not leave the loop at that member, even with a values
\* text captured; it succeeds only through a later Chart.yaml with a name,
\* does succeed at such a member if a values text is captured then, and with
\* no later named Chart.yaml it fails at the end of the archive.
Thm_C9 ==
  \A i \in 1 .. pos :
    UnnamedChartAt(i) =>
      /\ pos = i => pc \notin {"after", "build"} /\ ~Succeeded
      /\ Succeeded => \E j \in i + 1 .. pos : NamedChartAt(j)
      /\ \A j \in i + 1 .. pos :
           (NamedChartAt(j) /\ CapValues(j) # "")
             => pos = j /\ pc # "next" /\ (pc = "done" => err = NoErr)
      /\ (WellFormed /\ pc = "done"
            /\ (\A j \in i + 1 .. Len(Ms) : j \in ChartIdx => UnnamedChartAt(j)))
           => pos = Len(Ms) /\ err = ErrChartNotFound

\* values.yaml, then a Chart.yaml without a name, then one with a name
Wit_C9 ==
  /\ Succeeded
  /\ pos = 3
  /\ UnnamedChartAt(2)
  /\ CapValues(2) # ""

\* C10: throughout the scan the captured chart is the parse of the last
\* member read that matches */Chart.yaml and the captured values text is the
\* body of the last member read that matches */values.yaml, each replaced
\* as a whole; a later empty capture erases an earlier one.
Thm_C10 ==
  (err = NoErr /\ file.Kind = "targz")
  => /\ chart = CapChart(IF pc \in {"match", "chart"} THEN pos - 1 ELSE pos)
     /\ values = CapValues(IF pc \in {"match", "chart", "values"} THEN pos - 1 ELSE pos)

\* foo's Chart.yaml is replaced by qux's, which has no description, and the
\* result joins the name from directory b with the values from directory a
Wit_C10 ==
  /\ Succeeded
  /\ pos = 3
  /\ yamlUnmarshal(Ms[1].Body).c.Description = "bar"
  /\ IsChartMember(Ms[1])
  /\ Ms[2].Name = DirB \o Slash \o ChartYaml
  /\ Ms[3].Name = DirA \o Slash \o ValuesYaml
  /\ result.Name = "qux"
  /\ result.Description = ""
  /\ result.Values = ValDoc

====
